---- MODULE Spec2Model ----
(***************************************************************************)
(* Duplicate-image detection of ryubee-api (src/main.py).                  *)
(*                                                                         *)
(* The state is what deduplicate_images and volume_estimate read and       *)
(* write: the module global DUP_HASH_THRESHOLD, the uploaded files of each *)
(* request with their read cursors, the locals of every running            *)
(* deduplicate_images coroutine (hashes, unique_files, kept_names,         *)
(* all_names, the loop index), the response of each request and the jobs   *)
(* table.  A coroutine can be suspended only at `await f.read()`, so one   *)
(* action runs up to that await and one action runs the rest of the loop   *)
(* body.                                                                   *)
(***************************************************************************)
EXTENDS Integers, Sequences, FiniteSets

VARIABLES DUP_HASH_THRESHOLD, files, position, pc, idx, hashes, unique_files,
          kept_names, all_names, outcome, response, jobs

vars == <<DUP_HASH_THRESHOLD, files, position, pc, idx, hashes, unique_files,
          kept_names, all_names, outcome, response, jobs>>

-----------------------------------------------------------------------------
(* Bounds and input domains *)

\* longest batch of one request
MaxBatch == 3

\* longest batch of a request that runs concurrently with another one
MaxConcBatch == 2

\* the value written at line 34
DefaultThreshold == 5

\* width of a pHash fingerprint (hash_size 8 x 8)
HashBits == 64

\* the two requests in flight
Requests == {1, 2}

\* values line 34 may be edited to: the shipped one, its neighbour, and one
\* on each side of the documented 0..64
Thresholds == {-1, DefaultThreshold, DefaultThreshold + 1, HashBits + 1}

Filenames == {"a.jpg", "b.jpg"}

\* A fingerprint is the set of positions of its 1 bits.
Bits(n) == 0 .. (n - 1)

\* weights of the fingerprints of the pool: Bits(w) for each w
Weights == {0, 3, 6, 8, 40}

Fingerprints == {Bits(w) : w \in Weights}

\* An uploaded, non-empty file: its name, its length in bytes, how PIL treats
\* its bytes ("ok": opens and loads; "open_error": Image.open raises;
\* "load_error": Image.open succeeds and the pixel load inside phash raises),
\* and the pHash of its pixels (meaningful for "ok" only).
Readable ==
    [filename : Filenames, size : {1}, decode : {"ok"}, phash : Fingerprints]

Unreadable ==
    [filename : Filenames, size : {1}, decode : {"open_error", "load_error"},
     phash : {Bits(0)}]

Assets == Readable \cup Unreadable

RECURSIVE SeqsUpTo(_, _)
SeqsUpTo(S, n) ==
    IF n = 0 THEN {<<>>}
    ELSE LET shorter == SeqsUpTo(S, n - 1)
         IN  shorter \cup {Append(s, x) : s \in shorter, x \in S}

Batches == SeqsUpTo(Assets, MaxBatch)

\* the files of two requests that run concurrently
ConcAssets == {f \in Assets : f.filename = "a.jpg" /\ f.phash \in {Bits(0), Bits(3)}}

ConcBatches == SeqsUpTo(ConcAssets, MaxConcBatch)

-----------------------------------------------------------------------------
(* Pure parts of deduplicate_images *)

\* h - existing : number of differing bits
Hamming(a, b) == Cardinality((a \ b) \cup (b \ a))

\* is_dup with the comparison against the last kept hash only
is_dup_last(h, hs, t) == Len(hs) > 0 /\ Hamming(h, hs[Len(hs)]) <= t

\* is_dup with == for <=
is_dup_equal(h, hs, t) == \E k \in 1 .. Len(hs) : Hamming(h, hs[k]) = t

\* is_dup with < for <=
is_dup_strict(h, hs, t) == \E k \in 1 .. Len(hs) : Hamming(h, hs[k]) < t

\* the for/break loop over hashes
is_dup(h, hs, t) == \E k \in 1 .. Len(hs) : Hamming(h, hs[k]) <= t

\* append with list.insert(0, x)
prepend(list, x) == <<x>> \o list

\* list.append
append(list, x) == Append(list, x)

\* open_fails without the try/except around Image.open
open_never_fails(f) == FALSE

\* Image.open(BytesIO(content)) raises
open_fails(f) == f.decode = "open_error"

\* imagehash.phash(img) raises while loading the pixels
phash_fails(f) == f.decode = "load_error"

\* the locals of one invocation before the loop
new_locals ==
    [hashes |-> <<>>, unique_files |-> <<>>, kept_names |-> <<>>, outcome |-> <<>>]

\* one pass of the loop body for a file that decodes; k is its index in files
loop_body(L, k, f, t) ==
    IF is_dup(f.phash, L.hashes, t)
    THEN [L EXCEPT !.outcome = Append(@, "dropped")]
    ELSE [hashes       |-> append(L.hashes, f.phash),
          unique_files |-> append(L.unique_files, k),
          kept_names   |-> append(L.kept_names, f.filename),
          outcome      |-> Append(L.outcome, "kept")]

\* the continue of the except branch
skip_body(L) == [L EXCEPT !.outcome = Append(@, "unreadable")]

\* deduplicate_images run alone on fs with threshold t, from index k on
RECURSIVE dedup_from(_, _, _, _)
dedup_from(fs, t, k, L) ==
    IF k > Len(fs) THEN [status |-> "returned", locals |-> L]
    ELSE IF open_fails(fs[k]) THEN dedup_from(fs, t, k + 1, skip_body(L))
    ELSE IF phash_fails(fs[k]) THEN [status |-> "raised", locals |-> L]
    ELSE dedup_from(fs, t, k + 1, loop_body(L, k, fs[k], t))

deduplicate_images(fs, t) == dedup_from(fs, t, 1, new_locals)

\* hashes_of with hashes a module global shared by every invocation
hashes_shared(r) == 1

\* the invocation whose hashes list the name `hashes` denotes in request r
hashes_of(r) == r

-----------------------------------------------------------------------------
(* State machine *)

\* the service as shipped, before any request
Init ==
    /\ DUP_HASH_THRESHOLD = DefaultThreshold
    /\ files = [r \in Requests |-> <<>>]
    /\ position = [r \in Requests |-> <<>>]
    /\ pc = [r \in Requests |-> "idle"]
    /\ idx = [r \in Requests |-> 1]
    /\ hashes = [r \in Requests |-> <<>>]
    /\ unique_files = [r \in Requests |-> <<>>]
    /\ kept_names = [r \in Requests |-> <<>>]
    /\ all_names = [r \in Requests |-> <<>>]
    /\ outcome = [r \in Requests |-> <<>>]
    /\ response = [r \in Requests |-> <<>>]
    /\ jobs = {}

\* The service is deployed with t written at line 34.  The assignment runs
\* once, at import, before any request is served, and nothing checks t.
Configure(t) ==
    /\ \A r \in Requests : pc[r] = "idle"
    /\ DUP_HASH_THRESHOLD' = t
    /\ UNCHANGED <<files, position, pc, idx, hashes, unique_files, kept_names,
                   all_names, outcome, response, jobs>>

\* volume_estimate is called with batch b; deduplicate_images is entered and
\* runs to the head of its loop.
Receive(r, b) ==
    /\ files' = [files EXCEPT ![r] = b]
    /\ position' = [position EXCEPT ![r] = [k \in 1 .. Len(b) |-> 0]]
    /\ hashes' = [hashes EXCEPT ![hashes_of(r)] = new_locals.hashes]
    /\ unique_files' = [unique_files EXCEPT ![r] = new_locals.unique_files]
    /\ kept_names' = [kept_names EXCEPT ![r] = new_locals.kept_names]
    /\ outcome' = [outcome EXCEPT ![r] = new_locals.outcome]
    /\ all_names' = [all_names EXCEPT ![r] = [k \in 1 .. Len(b) |-> b[k].filename]]
    /\ idx' = [idx EXCEPT ![r] = 1]
    /\ pc' = [pc EXCEPT ![r] = "loop"]
    /\ UNCHANGED <<DUP_HASH_THRESHOLD, response, jobs>>

\* content = await f.read(): the cursor of the file moves to its end.
ReadAsset(r) ==
    /\ pc[r] = "loop"
    /\ idx[r] <= Len(files[r])
    /\ position' = [position EXCEPT ![r][idx[r]] = files[r][idx[r]].size]
    /\ pc' = [pc EXCEPT ![r] = "body"]
    /\ UNCHANGED <<DUP_HASH_THRESHOLD, files, idx, hashes, unique_files,
                   kept_names, all_names, outcome, response, jobs>>

\* Image.open raises: except ... continue (the seek(0) is not reached).
Skip(r) ==
    /\ pc[r] = "body"
    /\ open_fails(files[r][idx[r]])
    /\ LET L == skip_body([hashes       |-> hashes[hashes_of(r)],
                           unique_files |-> unique_files[r],
                           kept_names   |-> kept_names[r],
                           outcome      |-> outcome[r]])
       IN  /\ hashes' = [hashes EXCEPT ![hashes_of(r)] = L.hashes]
           /\ unique_files' = [unique_files EXCEPT ![r] = L.unique_files]
           /\ kept_names' = [kept_names EXCEPT ![r] = L.kept_names]
           /\ outcome' = [outcome EXCEPT ![r] = L.outcome]
    /\ idx' = [idx EXCEPT ![r] = @ + 1]
    /\ pc' = [pc EXCEPT ![r] = "loop"]
    /\ UNCHANGED <<DUP_HASH_THRESHOLD, files, position, all_names, response, jobs>>

\* imagehash.phash raises outside the try: the exception leaves
\* deduplicate_images and volume_estimate.
Abort(r) ==
    /\ pc[r] = "body"
    /\ ~open_fails(files[r][idx[r]])
    /\ phash_fails(files[r][idx[r]])
    /\ pc' = [pc EXCEPT ![r] = "raised"]
    /\ UNCHANGED <<DUP_HASH_THRESHOLD, files, position, idx, hashes, unique_files,
                   kept_names, all_names, outcome, response, jobs>>

\* The file decodes: hash, compare with the kept hashes, keep or drop,
\* f.file.seek(0).
Classify(r) ==
    /\ pc[r] = "body"
    /\ ~open_fails(files[r][idx[r]])
    /\ ~phash_fails(files[r][idx[r]])
    /\ LET L == loop_body([hashes       |-> hashes[hashes_of(r)],
                           unique_files |-> unique_files[r],
                           kept_names   |-> kept_names[r],
                           outcome      |-> outcome[r]],
                          idx[r], files[r][idx[r]], DUP_HASH_THRESHOLD)
       IN  /\ hashes' = [hashes EXCEPT ![hashes_of(r)] = L.hashes]
           /\ unique_files' = [unique_files EXCEPT ![r] = L.unique_files]
           /\ kept_names' = [kept_names EXCEPT ![r] = L.kept_names]
           /\ outcome' = [outcome EXCEPT ![r] = L.outcome]
    /\ position' = [position EXCEPT ![r][idx[r]] = 0]
    /\ idx' = [idx EXCEPT ![r] = @ + 1]
    /\ pc' = [pc EXCEPT ![r] = "loop"]
    /\ UNCHANGED <<DUP_HASH_THRESHOLD, files, all_names, response, jobs>>

\* The loop is exhausted: deduplicate_images returns and volume_estimate
\* builds the response, stores the job record under its job_id (one per
\* request) and returns.
Respond(r) ==
    /\ pc[r] = "loop"
    /\ idx[r] > Len(files[r])
    /\ LET debug == [received_count    |-> Len(all_names[r]),
                     after_dedup_count |-> Len(unique_files[r]),
                     all_images        |-> all_names[r],
                     kept_images       |-> kept_names[r]]
       IN  /\ response' = [response EXCEPT ![r] = <<debug>>]
           /\ jobs' = jobs \cup {[job_id |-> r, ai_result |-> debug]}
    /\ pc' = [pc EXCEPT ![r] = "done"]
    /\ UNCHANGED <<DUP_HASH_THRESHOLD, files, position, idx, hashes, unique_files,
                   kept_names, all_names, outcome>>

Step(r) == ReadAsset(r) \/ Skip(r) \/ Abort(r) \/ Classify(r) \/ Respond(r)

\* one request at a time
Arrive(r, B) == pc[r] = "idle" /\ \E b \in B : Receive(r, b)

Next == (\E t \in Thresholds : Configure(t)) \/ Arrive(1, Batches) \/ Step(1)

Spec == Init /\ [][Next]_vars

\* two requests whose coroutines interleave at the awaits, with the shipped
\* threshold
InitConc == Init

NextConc == \E r \in Requests : Arrive(r, ConcBatches) \/ Step(r)

SpecConc == InitConc /\ [][NextConc]_vars

-----------------------------------------------------------------------------
(* Helpers of the properties *)

Range(s) == {s[k] : k \in 1 .. Len(s)}

RECURSIVE IsSubseq(_, _)
IsSubseq(s, t) ==
    IF s = <<>> THEN TRUE
    ELSE IF t = <<>> THEN FALSE
    ELSE IF Head(s) = Head(t) THEN IsSubseq(Tail(s), Tail(t))
    ELSE IsSubseq(s, Tail(t))

\* the files request r kept, in kept order
KeptFiles(r) == [k \in 1 .. Len(unique_files[r]) |-> files[r][unique_files[r][k]]]

\* positions of files[r] that have been through the loop body
Processed(r) == 1 .. Len(outcome[r])

Count(r, o) == Cardinality({k \in Processed(r) : outcome[r][k] = o})

Finished(r) == pc[r] \in {"done", "raised"}

TypeOK ==
    /\ DUP_HASH_THRESHOLD \in Thresholds
    /\ \A r \in Requests :
          /\ pc[r] \in {"idle", "loop", "body", "done", "raised"}
          /\ idx[r] \in 1 .. (Len(files[r]) + 1)
          /\ Len(position[r]) = Len(files[r])
          /\ \A k \in 1 .. Len(files[r]) :
                /\ files[r][k] \in Assets
                /\ position[r][k] \in {0, files[r][k].size}
          /\ \A k \in 1 .. Len(hashes[r]) : hashes[r][k] \subseteq Bits(HashBits)

-----------------------------------------------------------------------------
(* Properties *)

\* C1: at every point of a run, and so when deduplicate_images finishes, any
\* two distinct entries of the kept list are at Hamming distance > T, and
\* re-running the partitioner with the same T on the kept files alone, in
\* kept order, keeps every one of them.
KeptPairwiseFar ==
    \A r \in Requests :
       /\ \A a, b \in 1 .. Len(hashes[r]) :
             a # b => Hamming(hashes[r][a], hashes[r][b]) > DUP_HASH_THRESHOLD
       /\ LET again == deduplicate_images(KeptFiles(r), DUP_HASH_THRESHOLD)
          IN  /\ again.status = "returned"
              /\ again.locals.unique_files = [k \in 1 .. Len(unique_files[r]) |-> k]
              /\ again.locals.hashes = hashes[r]

\* C1 witness: a finished batch under the shipped threshold with two kept
\* files and a dropped one.
KeptPairwiseFarWitness ==
    /\ pc[1] = "done"
    /\ DUP_HASH_THRESHOLD = DefaultThreshold
    /\ Len(hashes[1]) >= 2
    /\ Count(1, "dropped") >= 1

\* C2 as stated: for every finished batch and every larger threshold T2, the
\* files kept under T2 are among the files kept under T.
ThresholdMonotone ==
    \A r \in Requests : \A t2 \in Thresholds :
       (pc[r] = "done" /\ t2 > DUP_HASH_THRESHOLD) =>
          Range(deduplicate_images(files[r], t2).locals.unique_files)
             \subseteq Range(unique_files[r])

\* C2 amended: for every finished batch and every larger threshold T2, at the
\* first position where the outcomes under T and under T2 differ the file is
\* kept under T and dropped under T2.
FirstChangeIsDrop ==
    \A r \in Requests : \A t2 \in Thresholds :
       (pc[r] = "done" /\ t2 > DUP_HASH_THRESHOLD) =>
          LET o1 == outcome[r]
              o2 == deduplicate_images(files[r], t2).locals.outcome
          IN  /\ Len(o2) = Len(o1)
              /\ \A k \in 1 .. Len(o1) :
                    ((\A j \in 1 .. (k - 1) : o1[j] = o2[j]) /\ o1[k] # o2[k])
                       => (o1[k] = "kept" /\ o2[k] = "dropped")

\* C2 witness: a finished batch under the shipped threshold whose outcomes
\* change under the next threshold, a later file going from dropped to kept.
FirstChangeIsDropWitness ==
    /\ pc[1] = "done"
    /\ DUP_HASH_THRESHOLD = DefaultThreshold
    /\ LET o2 == deduplicate_images(files[1], DefaultThreshold + 1).locals.outcome
       IN  \E k \in 1 .. Len(outcome[1]) : \E m \in (k + 1) .. Len(outcome[1]) :
              /\ outcome[1][k] = "kept" /\ o2[k] = "dropped"
              /\ outcome[1][m] = "dropped" /\ o2[m] = "kept"

\* C3 as stated: once deduplicate_images has returned, the cursor of every
\* file of the batch is at position 0.
SourcesRewound ==
    \A r \in Requests :
       pc[r] = "done" => \A k \in 1 .. Len(files[r]) : position[r][k] = 0

\* C4 as stated: no request ends with an exception, whatever its files.
DecodeErrorNeverAborts ==
    \A r \in Requests : pc[r] # "raised"

\* C5 as stated: when a request is over, every file of its batch has exactly
\* one outcome, the three outcome counts add up to len(all_names), and the
\* reported counts are after_dedup_count = len(kept_names) <= received_count
\* = len(all_names).
BatchAccounted ==
    \A r \in Requests :
       Finished(r) =>
          /\ Len(outcome[r]) = Len(all_names[r])
          /\ Len(kept_names[r]) + Count(r, "dropped") + Count(r, "unreadable")
                = Len(all_names[r])
          /\ Len(response[r]) = 1
          /\ response[r][1].after_dedup_count = Len(kept_names[r])
          /\ response[r][1].received_count = Len(all_names[r])
          /\ response[r][1].after_dedup_count <= response[r][1].received_count

\* C5 on the batches that return (the part of the claim the code keeps).
ReturnedBatchAccounted ==
    \A r \in Requests :
       pc[r] = "done" =>
          /\ Len(outcome[r]) = Len(all_names[r])
          /\ Len(all_names[r]) = Len(files[r])
          /\ Len(kept_names[r]) = Count(r, "kept")
          /\ Len(kept_names[r]) + Count(r, "dropped") + Count(r, "unreadable")
                = Len(all_names[r])
          /\ Len(response[r]) = 1
          /\ response[r][1].after_dedup_count = Len(kept_names[r])
          /\ response[r][1].received_count = Len(all_names[r])
          /\ response[r][1].after_dedup_count <= response[r][1].received_count
          /\ response[r][1].kept_images = kept_names[r]
          /\ response[r][1].all_images = all_names[r]

\* C6: at every point of the pass and at its end, kept_names is a
\* subsequence of all_names: it holds the names of the kept files, whose
\* positions in the batch are strictly increasing.
KeptNamesInOrder ==
    \A r \in Requests :
       /\ IsSubseq(kept_names[r], all_names[r])
       /\ Len(kept_names[r]) = Len(unique_files[r])
       /\ \A k \in 1 .. Len(unique_files[r]) :
             /\ unique_files[r][k] \in 1 .. Len(all_names[r])
             /\ kept_names[r][k] = all_names[r][unique_files[r][k]]
       /\ \A a, b \in 1 .. Len(unique_files[r]) :
             a < b => unique_files[r][a] < unique_files[r][b]

\* C6 witness: a finished batch in which two files share a filename, two
\* files are kept under different names and one file is not kept.
KeptNamesInOrderWitness ==
    /\ pc[1] = "done"
    /\ Len(kept_names[1]) = 2
    /\ kept_names[1][1] # kept_names[1][2]
    /\ Len(all_names[1]) = 3
    /\ Cardinality(Range(all_names[1])) = 2

\* what a step of request r that handles an undecodable file leaves alone
UnreadableStepKeepsLists ==
    \A r \in Requests :
       (pc[r] = "body" /\ pc'[r] # "body" /\ files[r][idx[r]].decode # "ok") =>
          (hashes'[r] = hashes[r] /\ unique_files'[r] = unique_files[r]
             /\ kept_names'[r] = kept_names[r])

\* every kept entry belongs to a file that decodes
KeptAreReadable ==
    \A r \in Requests :
       /\ Len(hashes[r]) = Len(unique_files[r])
       /\ \A k \in 1 .. Len(unique_files[r]) :
             /\ files[r][unique_files[r][k]].decode = "ok"
             /\ hashes[r][k] = files[r][unique_files[r][k]].phash
       /\ \A k \in Processed(r) :
             files[r][k].decode # "ok" => outcome[r][k] = "unreadable"

\* C7: a file that fails to decode is never kept, its fingerprint never
\* enters the kept list, and the step that handles it leaves hashes,
\* unique_files and kept_names as they were; every kept hash is the pHash of
\* a readable kept file.
UnreadableExcluded == [](KeptAreReadable) /\ [][UnreadableStepKeepsLists]_vars

\* C7 witness: an undecodable file has been skipped after a file was kept,
\* and a later file has been compared and kept.
UnreadableExcludedWitness ==
    /\ pc[1] = "done"
    /\ Len(outcome[1]) = 3
    /\ outcome[1][1] = "kept"
    /\ outcome[1][2] = "unreadable"
    /\ outcome[1][3] = "kept"

\* C8 as stated: under a threshold outside 0..64 no file of any batch is
\* ever classified (the configuration is rejected first).
InvalidThresholdRejected ==
    (DUP_HASH_THRESHOLD < 0 \/ DUP_HASH_THRESHOLD > HashBits) =>
       \A r \in Requests : outcome[r] = <<>>

\* C9: a readable file that has been processed is dropped exactly when some
\* earlier kept file is at Hamming distance <= T from it, and is kept
\* otherwise; the kept list holds the fingerprints of the kept files in
\* upload order; the first readable file is kept; and three readable files
\* with d(1,2) = 3 and d(1,3) = 40 under T = 5 end with the first and third
\* names kept.
GreedyInclusiveRule ==
    \A r \in Requests :
       /\ \A k \in Processed(r) :
             files[r][k].decode = "ok" =>
                LET near == \E j \in 1 .. (k - 1) :
                               /\ outcome[r][j] = "kept"
                               /\ Hamming(files[r][k].phash, files[r][j].phash)
                                     <= DUP_HASH_THRESHOLD
                IN  /\ near => outcome[r][k] = "dropped"
                    /\ ~near => outcome[r][k] = "kept"
                    /\ (\A j \in 1 .. (k - 1) : files[r][j].decode # "ok")
                          => outcome[r][k] = "kept"
       /\ unique_files[r] =
             SelectSeq([k \in 1 .. Len(outcome[r]) |-> k],
                       LAMBDA k : outcome[r][k] = "kept")
       /\ hashes[r] = [k \in 1 .. Len(unique_files[r]) |->
                          files[r][unique_files[r][k]].phash]
       /\ (/\ pc[r] = "done"
           /\ DUP_HASH_THRESHOLD = 5
           /\ Len(files[r]) = 3
           /\ \A k \in 1 .. 3 : files[r][k].decode = "ok"
           /\ Hamming(files[r][1].phash, files[r][2].phash) = 3
           /\ Hamming(files[r][1].phash, files[r][3].phash) = 40)
          => /\ kept_names[r] = <<files[r][1].filename, files[r][3].filename>>
             /\ response[r][1].after_dedup_count = 2
             /\ response[r][1].received_count = 3

\* C9 witness: under the shipped threshold a file at distance exactly T from
\* a kept file has been dropped and a later file has been kept.
GreedyInclusiveRuleWitness ==
    /\ pc[1] = "done"
    /\ DUP_HASH_THRESHOLD = DefaultThreshold
    /\ Len(files[1]) = 3
    /\ outcome[1] = <<"kept", "dropped", "kept">>
    /\ Hamming(files[1][1].phash, files[1][2].phash) = DefaultThreshold

\* C10: in every interleaving, what a request has computed so far is what
\* deduplicate_images computes alone on the files it has been through, its
\* final lists and response are those of a run alone on its batch, and every
\* hash of its kept list is the pHash of one of its own kept files.
BatchesIsolated ==
    \A r \in Requests :
       /\ pc[r] \in {"loop", "body"} =>
             LET alone == deduplicate_images(SubSeq(files[r], 1, idx[r] - 1),
                                             DUP_HASH_THRESHOLD)
             IN  /\ alone.status = "returned"
                 /\ hashes[r] = alone.locals.hashes
                 /\ unique_files[r] = alone.locals.unique_files
                 /\ kept_names[r] = alone.locals.kept_names
       /\ Finished(r) =>
             LET alone == deduplicate_images(files[r], DUP_HASH_THRESHOLD)
             IN  /\ (pc[r] = "done") = (alone.status = "returned")
                 /\ hashes[r] = alone.locals.hashes
                 /\ unique_files[r] = alone.locals.unique_files
                 /\ kept_names[r] = alone.locals.kept_names
                 /\ pc[r] = "done" => response[r][1].kept_images = alone.locals.kept_names
       /\ Len(hashes[r]) = Len(unique_files[r])
       /\ \A k \in 1 .. Len(unique_files[r]) :
             /\ unique_files[r][k] \in 1 .. Len(files[r])
             /\ hashes[r][k] = files[r][unique_files[r][k]].phash

\* C10 witness: both coroutines are suspended in the middle of their loops,
\* each with a kept list of its own.
BatchesIsolatedWitness ==
    /\ pc[1] = "body" /\ pc[2] = "body"
    /\ idx[1] = 2 /\ idx[2] = 2
    /\ hashes[1] # <<>> /\ hashes[2] # <<>>
    /\ hashes[1] # hashes[2]

====
